---- MODULE Spec2Model ----
(***************************************************************************)
(* SaveMetadataManager (src/src/save-metadata-manager.js): the in-memory   *)
(* metadata record, the backing file metadata.json with its sibling        *)
(* temporary file, and the async operations of the store, one action per   *)
(* stretch of code between two awaits.                                     *)
(***************************************************************************)
EXTENDS Integers, Sequences, FiniteSets, TLC

\* ------------------------------------------------------------- bounds
\* calls, injected failures, external changes and restarts of one run
MaxEvents == 4
\* calls of one run whose steps interleave
MaxOverlap == 2

\* ------------------------------------------------------------- inputs
Filenames == {"save1", "backup_1"}
BackupNames == {"backup_1"}
Contents == {<<65>>, <<66, 66>>}
Slots == {"L", "A", "B"}
OpSlots == {"A", "B"}

\* saveInfo objects: an absent property reads as a falsy value (0, "")
SaveInfos == << [size |-> 0, gameVersion |-> "", playerLevel |-> 0],
                [size |-> 4, gameVersion |-> "1.2", playerLevel |-> 3] >>

\* the registrations a caller makes: a filename with its saveInfo
Registrations == {<<"save1", 1>>, <<"backup_1", 2>>}

\* partial configuration objects: keys lists the properties that are present
Configs == << [keys |-> {"autoSaveEnabled"}, autoSaveEnabled |-> FALSE,
               autoSaveInterval |-> 0, backupCount |-> 0, migrationCompleted |-> FALSE],
              [keys |-> {"backupCount", "migrationCompleted"}, autoSaveEnabled |-> FALSE,
               autoSaveInterval |-> 0, backupCount |-> 5, migrationCompleted |-> TRUE] >>

Null == 0

\* ------------------------------------------------------------- files
MetaPath == "metadata.json"
TempPath == "metadata.json.tmp"

NoFile == [kind |-> "absent", body |-> <<>>]
Partial == [kind |-> "partial", body |-> <<>>]
Corrupt == [kind |-> "corrupt", body |-> <<>>]

\* JSON.stringify of the record: a complete document holding every property
JSONstringify(obj) == [kind |-> "json", body |-> obj]
\* JSON.parse throws a SyntaxError on anything that is not a complete document
ParseOK(file) == file.kind = "json"
JSONparse(file) == file.body

\* ------------------------------------------------------------- record
DefaultStatistics ==
  [totalSaveOperations |-> 0, totalLoadOperations |-> 0,
   lastSuccessfulSave |-> Null, lastSuccessfulLoad |-> Null,
   averageSaveSize |-> 0, totalDiskUsage |-> 0]

DefaultMetadata ==
  [version |-> "1.0.0", lastSave |-> Null, autoSaveEnabled |-> TRUE,
   autoSaveInterval |-> 30000, backupCount |-> 10, totalSaves |-> 0,
   migrationCompleted |-> FALSE, saves |-> << >>,
   statistics |-> DefaultStatistics]

RECURSIVE Digest(_)
Digest(data) ==
  IF data = <<>> THEN 7 ELSE (31 * Digest(Tail(data)) + Head(data)) % 1009

\* sha256 hex digest of the bytes: deterministic, injective on Contents
calculateChecksum(data) == Digest(data)

RECURSIVE SumSizes(_, _)
SumSizes(saves, names) ==
  IF names = {} THEN 0
  ELSE LET f == CHOOSE x \in names : TRUE
       IN saves[f].size + SumSizes(saves, names \ {f})

\* Math.round of a non-negative quotient
Round(num, den) == (2 * num + den) \div (2 * den)

\* updateStatistics: the statistics object after the recomputation
updateStatistics(stats, saves) ==
  IF DOMAIN saves # {}
  THEN LET totalSize == SumSizes(saves, DOMAIN saves)
       IN [stats EXCEPT !.averageSaveSize = Round(totalSize, Cardinality(DOMAIN saves)),
                        !.totalDiskUsage = totalSize]
  ELSE [stats EXCEPT !.averageSaveSize = 0, !.totalDiskUsage = 0]

\* saveInfo.size || fileContent.length, and the like
OrElse(v, dflt, falsy) == IF v = falsy THEN dflt ELSE v

\* faulty variant: the count of the previous entry is not carried over
NewEntryStartingOver(saves, filename, saveInfo, fileContent, timestamp) ==
  [filename |-> filename,
   checksum |-> calculateChecksum(fileContent),
   size |-> OrElse(saveInfo.size, Len(fileContent), 0),
   created |-> timestamp,
   lastModified |-> timestamp,
   isBackup |-> filename \in BackupNames,
   saveCount |-> 1,
   gameVersion |-> OrElse(saveInfo.gameVersion, "unknown", ""),
   playerLevel |-> OrElse(saveInfo.playerLevel, 0, 0)]

NewEntry(saves, filename, saveInfo, fileContent, timestamp) ==
  [filename |-> filename,
   checksum |-> calculateChecksum(fileContent),
   size |-> OrElse(saveInfo.size, Len(fileContent), 0),
   created |-> timestamp,
   lastModified |-> timestamp,
   isBackup |-> filename \in BackupNames,
   saveCount |-> (IF filename \in DOMAIN saves THEN saves[filename].saveCount ELSE 0) + 1,
   gameVersion |-> OrElse(saveInfo.gameVersion, "unknown", ""),
   playerLevel |-> OrElse(saveInfo.playerLevel, 0, 0)]

Put(saves, filename, entry) ==
  [f \in DOMAIN saves \cup {filename} |-> IF f = filename THEN entry ELSE saves[f]]

\* faulty variant: the whole mapping is emptied
DeleteEverything(saves, names) == [f \in {} |-> saves[f]]

Delete(saves, names) == [f \in DOMAIN saves \ names |-> saves[f]]

\* faulty variant: totalSaves is not incremented
RegisterRecordUncounted(md, filename, saveInfo, fileContent, timestamp) ==
  [md EXCEPT
     !.saves = Put(md.saves, filename,
                   NewEntry(md.saves, filename, saveInfo, fileContent, timestamp)),
     !.lastSave = timestamp,
     !.statistics = [md.statistics EXCEPT
                       !.totalSaveOperations = md.statistics.totalSaveOperations + 1,
                       !.lastSuccessfulSave = timestamp]]

\* lines 125-141 of registerSaveFile, before the statistics are recomputed
RegisterRecord(md, filename, saveInfo, fileContent, timestamp) ==
  [md EXCEPT
     !.saves = Put(md.saves, filename,
                   NewEntry(md.saves, filename, saveInfo, fileContent, timestamp)),
     !.lastSave = timestamp,
     !.totalSaves = md.totalSaves + 1,
     !.statistics = [md.statistics EXCEPT
                       !.totalSaveOperations = md.statistics.totalSaveOperations + 1,
                       !.lastSuccessfulSave = timestamp]]

WithStatistics(md) ==
  [md EXCEPT !.statistics = updateStatistics(md.statistics, md.saves)]

Stamp(entry, timestamp) ==
  [k \in DOMAIN entry \cup {"lastAccessed"} |->
     IF k = "lastAccessed" THEN timestamp ELSE entry[k]]

\* faulty variant: an unknown filename gets an entry that holds the stamp
RecordLoadCreating(md, filename, timestamp) ==
  [md EXCEPT
     !.saves = Put(md.saves, filename,
                   Stamp(IF filename \in DOMAIN md.saves THEN md.saves[filename]
                         ELSE [filename |-> filename], timestamp)),
     !.statistics = [md.statistics EXCEPT
                       !.totalLoadOperations = md.statistics.totalLoadOperations + 1,
                       !.lastSuccessfulLoad = timestamp]]

RecordLoadRecord(md, filename, timestamp) ==
  [md EXCEPT
     !.saves = IF filename \in DOMAIN md.saves
               THEN Put(md.saves, filename, Stamp(md.saves[filename], timestamp))
               ELSE md.saves,
     !.statistics = [md.statistics EXCEPT
                       !.totalLoadOperations = md.statistics.totalLoadOperations + 1,
                       !.lastSuccessfulLoad = timestamp]]

\* faulty variant: every property is assigned, present or not
ConfigurationOverwritingAll(md, config) ==
  [md EXCEPT
     !.autoSaveEnabled = config.autoSaveEnabled,
     !.autoSaveInterval = config.autoSaveInterval,
     !.backupCount = config.backupCount,
     !.migrationCompleted = config.migrationCompleted]

ConfigurationRecord(md, config) ==
  [md EXCEPT
     !.autoSaveEnabled = IF "autoSaveEnabled" \in config.keys
                         THEN config.autoSaveEnabled ELSE md.autoSaveEnabled,
     !.autoSaveInterval = IF "autoSaveInterval" \in config.keys
                          THEN config.autoSaveInterval ELSE md.autoSaveInterval,
     !.backupCount = IF "backupCount" \in config.keys
                     THEN config.backupCount ELSE md.backupCount,
     !.migrationCompleted = IF "migrationCompleted" \in config.keys
                            THEN config.migrationCompleted ELSE md.migrationCompleted]

\* the tracked filenames that the directory listing does not include
Orphans(saves, existingFiles) == {f \in DOMAIN saves : f \notin existingFiles}

\* faulty variant: the mapping is rebuilt from the directory listing
AdoptingSaves(saves, existingFiles) ==
  [f \in existingFiles |->
     IF f \in DOMAIN saves THEN saves[f]
     ELSE NewEntry(saves, f, SaveInfos[1], <<>>, Null)]

\* the saves mapping after the loop of cleanupOrphanedMetadata
CleanedSaves(saves, existingFiles) == Delete(saves, Orphans(saves, existingFiles))

\* faulty variant: the counter is incremented for every tracked filename
CountEveryTracked(saves, existingFiles) == Cardinality(DOMAIN saves)

\* cleanedCount after the loop of cleanupOrphanedMetadata
CleanedCount(saves, existingFiles) == Cardinality(Orphans(saves, existingFiles))

\* faulty variant: the spread operands are swapped
DefaultsOverLoaded(current, loaded) ==
  [k \in DOMAIN current \cup DOMAIN loaded |->
     IF k \in DOMAIN current THEN current[k] ELSE loaded[k]]

\* { ...this.metadata, ...loadedMetadata }, then the nested objects are ensured
LoadMerge(current, loaded) ==
  LET merged == [k \in DOMAIN current \cup DOMAIN loaded |->
                   IF k \in DOMAIN loaded THEN loaded[k] ELSE current[k]]
  IN [k \in DOMAIN merged \cup {"saves", "statistics"} |->
        IF k \in DOMAIN merged THEN merged[k]
        ELSE IF k = "saves" THEN << >> ELSE DefaultStatistics]

\* faulty variant: the document is written over metadata.json itself
WriteDirectly == MetaPath

\* the path saveMetadata writes the document to before the rename
WriteTarget == TempPath


\* ------------------------------------------------------------- state
VARIABLES
  metadata,    \* this.metadata
  disk,        \* content of metadata.json and of metadata.json.tmp
  files,       \* the save files of the directory: filename -> bytes
  quarantine,  \* number of metadata_corrupted_<timestamp>.json files
  tasks,       \* per pending call: the operation, its position and its locals
  now,         \* Date.now(): every reading is later than the one before
  budget,      \* events of the run so far; whether I/O failures are injected and
               \* whether the caller makes calls without awaiting the earlier ones
  hist         \* record, file and directory as they were when the running call started

vars == <<metadata, disk, files, quarantine, tasks, now, budget, hist>>

\* no validation result yet
NoVerdict ==
  [valid |-> FALSE, filename |-> "", reason |-> "", storedChecksum |-> Null,
   currentChecksum |-> Null]

\* the results object validateAllSaveFiles starts from
EmptyReport ==
  [totalFiles |-> 0, validFiles |-> 0, invalidFiles |-> 0, missingFiles |-> 0,
   details |-> << >>]

IdleTask ==
  [op |-> "none", pc |-> "idle", filename |-> "", saveInfo |-> SaveInfos[1],
   config |-> Configs[1], timestamp |-> Null, json |-> NoFile, fd |-> "", cleaned |-> 0,
   stored |-> Null, remaining |-> {}, verdict |-> NoVerdict, report |-> EmptyReport,
   backedUp |-> FALSE,
   outcome |-> "none", ret |-> 0, saveErr |-> FALSE, readErr |-> FALSE]

NewTask(op, pc) == [IdleTask EXCEPT !.op = op, !.pc = pc, !.outcome = "pending"]

Free(t) == tasks[t].pc \in {"idle", "done"}
Quiescent == \A t \in Slots : Free(t)

\* per filename, the largest saveCount the record has held at the time of a call
Peak(peak, saves) ==
  [f \in Filenames |->
     IF f \in DOMAIN saves /\ saves[f].saveCount > peak[f]
     THEN saves[f].saveCount ELSE peak[f]]

NoPeak == [f \in Filenames |-> 0]

Snapshot(again) ==
  [pre |-> metadata, preFile |-> disk[MetaPath], preFiles |-> DOMAIN files,
   preDir |-> files, preTracked |-> DOMAIN metadata.saves, again |-> again, quiet |-> FALSE,
   peak |-> Peak(hist.peak, metadata.saves), loading |-> tasks["L"].pc # "done"]

\* the synchronous prefix of saveMetadata: the record md is serialized and the
\* write of the temporary file is started
SavePrefix(task, md) == [task EXCEPT !.json = JSONstringify(md), !.pc = "writeOpen"]

\* faulty variant: every catch block logs the error and returns
SettleSwallowing(task, err, persist) ==
  [task EXCEPT !.pc = "done", !.json = NoFile, !.fd = "", !.outcome = "returned",
               !.saveErr = err /\ persist, !.readErr = err /\ ~persist]

\* how a call ends once its body has run: err says that an await has thrown
\* inside the try block; persist says that the error came from saveMetadata
Settle(task, err, persist) ==
  LET done == [task EXCEPT !.pc = "done", !.json = NoFile, !.fd = "",
                           !.saveErr = err /\ persist, !.readErr = err /\ ~persist]
  IN CASE task.op \in {"register", "updateConfiguration", "load"} ->
            [done EXCEPT !.outcome = IF err THEN "threw" ELSE "returned"]
       [] task.op \in {"unregister", "recordLoad"} ->
            [done EXCEPT !.outcome = "returned"]
       [] OTHER ->
            [done EXCEPT !.outcome = "returned",
                         !.ret = IF err THEN 0 ELSE task.cleaned]

Spend == [budget EXCEPT !.events = budget.events + 1]
MayAct == budget.events < MaxEvents
MayFail == budget.faults /\ MayAct
MayCall(t) == MayAct /\ Free(t) /\ (budget.overlap \/ Quiescent)

Finish(t, task) ==
  /\ tasks' = [tasks EXCEPT ![t] = task]
  /\ hist' = IF task.op = "cleanup" /\ task.pc = "done"
             THEN [hist EXCEPT !.quiet = TRUE] ELSE hist

\* ------------------------------------------------------------- construction
StartedLoad == [s \in Slots |-> IF s = "L" THEN NewTask("load", "access") ELSE IdleTask]

InitFiles == [f \in Filenames |-> <<65>>]

\* the constructor has run on a directory without metadata.json
Constructed(mode) ==
  /\ metadata = DefaultMetadata
  /\ disk = [p \in {MetaPath, TempPath} |-> NoFile]
  /\ files = InitFiles
  /\ quarantine = 0
  /\ tasks = StartedLoad
  /\ now = 1
  /\ budget = mode
  /\ hist = [pre |-> DefaultMetadata, preFile |-> NoFile, preFiles |-> DOMAIN InitFiles, preDir |-> InitFiles,
             preTracked |-> {}, again |-> FALSE, quiet |-> FALSE, peak |-> NoPeak,
             loading |-> FALSE]

Init == Constructed([events |-> 0, faults |-> TRUE, overlap |-> FALSE])

\* the process stops at any point (a crash included) and a new store is
\* constructed over the same directory
Restart ==
  /\ MayAct
  /\ budget' = Spend
  /\ metadata' = DefaultMetadata
  /\ tasks' = StartedLoad
  /\ hist' = [Snapshot(FALSE) EXCEPT !.pre = DefaultMetadata, !.peak = NoPeak]
  /\ UNCHANGED <<disk, files, quarantine, now>>

\* ------------------------------------------------------------- loadMetadata
LoadAccess(t) ==
  /\ tasks[t].op = "load" /\ tasks[t].pc = "access"
  /\ IF disk[MetaPath].kind = "absent"
     THEN Finish(t, SavePrefix(tasks[t], metadata))
     ELSE Finish(t, [tasks[t] EXCEPT !.pc = "readMeta"])
  /\ UNCHANGED <<metadata, disk, files, quarantine, now, budget>>

LoadRead(t) ==
  /\ tasks[t].op = "load" /\ tasks[t].pc = "readMeta"
  /\ \/ /\ disk[MetaPath].kind = "absent"
        /\ Finish(t, SavePrefix(tasks[t], metadata))
        /\ UNCHANGED <<metadata, budget>>
     \/ /\ disk[MetaPath].kind # "absent" /\ ParseOK(disk[MetaPath])
        /\ metadata' = LoadMerge(metadata, JSONparse(disk[MetaPath]))
        /\ Finish(t, Settle(tasks[t], FALSE, FALSE))
        /\ UNCHANGED budget
     \/ /\ disk[MetaPath].kind # "absent" /\ ~ParseOK(disk[MetaPath])
        /\ Finish(t, [tasks[t] EXCEPT !.pc = "backup"])
        /\ UNCHANGED <<metadata, budget>>
     \/ /\ MayFail
        /\ budget' = Spend
        /\ Finish(t, Settle(tasks[t], TRUE, FALSE))
        /\ UNCHANGED metadata
  /\ UNCHANGED <<disk, files, quarantine, now>>

\* faulty variant: a failed copy ends the load
BackupFatal(task, copied, md) ==
  IF copied THEN SavePrefix([task EXCEPT !.backedUp = TRUE], md)
  ELSE [task EXCEPT !.pc = "done", !.outcome = "threw"]

\* after backupCorruptedMetadata, whose failure is caught and logged: the
\* saveMetadata of line 70 is called
AfterBackup(task, copied, md) == SavePrefix([task EXCEPT !.backedUp = copied], md)

\* backupCorruptedMetadata, then the saveMetadata of line 70
LoadBackup(t) ==
  /\ tasks[t].op = "load" /\ tasks[t].pc = "backup"
  /\ \/ /\ disk[MetaPath].kind # "absent"
        /\ quarantine' = quarantine + 1
        /\ Finish(t, AfterBackup(tasks[t], TRUE, metadata))
        /\ UNCHANGED budget
     \/ /\ disk[MetaPath].kind = "absent"
        /\ Finish(t, AfterBackup(tasks[t], FALSE, metadata))
        /\ UNCHANGED <<quarantine, budget>>
     \/ /\ MayFail
        /\ budget' = Spend
        /\ Finish(t, AfterBackup(tasks[t], FALSE, metadata))
        /\ UNCHANGED quarantine
  /\ UNCHANGED <<metadata, disk, files, now>>

\* ------------------------------------------------------------- saveMetadata
\* another call is writing to the same open file
OtherWriter(t) ==
  \E u \in Slots \ {t} : tasks[u].pc = "writing" /\ tasks[u].fd = tasks[t].fd

\* the files that other calls hold open move with the rename
Renamed(t, task) ==
  [u \in Slots |->
     IF u = t THEN task
     ELSE IF tasks[u].pc = "writing" /\ tasks[u].fd = WriteTarget
          THEN [tasks[u] EXCEPT !.fd = MetaPath]
          ELSE tasks[u]]

\* fs.writeFile opens and truncates the target; fd is the path under which
\* the open file is found
SaveWriteOpen(t) ==
  /\ tasks[t].pc = "writeOpen"
  /\ \/ /\ disk' = [disk EXCEPT ![WriteTarget] = Partial]
        /\ Finish(t, [tasks[t] EXCEPT !.pc = "writing", !.fd = WriteTarget])
        /\ UNCHANGED budget
     \/ /\ MayFail
        /\ budget' = Spend
        /\ Finish(t, Settle(tasks[t], TRUE, TRUE))
        /\ UNCHANGED disk
  /\ UNCHANGED <<metadata, files, quarantine, now>>

\* fs.writeFile has written the document, or fails part-way
SaveWriteFinish(t) ==
  /\ tasks[t].pc = "writing"
  /\ \/ /\ \E content \in {tasks[t].json} \cup (IF OtherWriter(t) THEN {Partial} ELSE {}) :
             disk' = [disk EXCEPT ![tasks[t].fd] = content]
        /\ Finish(t, [tasks[t] EXCEPT !.pc = "rename", !.fd = ""])
        /\ UNCHANGED budget
     \/ /\ MayFail
        /\ budget' = Spend
        /\ Finish(t, Settle(tasks[t], TRUE, TRUE))
        /\ UNCHANGED disk
  /\ UNCHANGED <<metadata, files, quarantine, now>>

\* fs.rename(tempFile, this.metadataFile)
SaveRename(t) ==
  /\ tasks[t].pc = "rename"
  /\ \/ /\ disk[WriteTarget].kind # "absent"
        /\ disk' = IF WriteTarget = MetaPath THEN disk
                   ELSE [disk EXCEPT ![MetaPath] = disk[WriteTarget], ![WriteTarget] = NoFile]
        /\ tasks' = Renamed(t, Settle(tasks[t], FALSE, FALSE))
        /\ hist' = IF tasks[t].op = "cleanup" THEN [hist EXCEPT !.quiet = TRUE] ELSE hist
        /\ UNCHANGED budget
     \/ /\ disk[WriteTarget].kind = "absent"
        /\ Finish(t, Settle(tasks[t], TRUE, TRUE))
        /\ UNCHANGED <<disk, budget>>
     \/ /\ disk[WriteTarget].kind # "absent" /\ MayFail
        /\ budget' = Spend
        /\ Finish(t, Settle(tasks[t], TRUE, TRUE))
        /\ UNCHANGED disk
  /\ UNCHANGED <<metadata, files, quarantine, now>>


\* ------------------------------------------------------------- operations
Call(t, task, again) ==
  /\ MayCall(t)
  /\ budget' = Spend
  /\ tasks' = [tasks EXCEPT ![t] = task]
  /\ hist' = Snapshot(again)

\* registerSaveFile up to the await of fs.readFile
RegisterCall(t, filename, saveInfo) ==
  /\ LET ts == now IN
       /\ now' = now + 1
       /\ Call(t, [NewTask("register", "readFile") EXCEPT
                     !.filename = filename, !.saveInfo = saveInfo, !.timestamp = ts], FALSE)
  /\ UNCHANGED <<metadata, disk, files, quarantine>>

\* registerSaveFile from the end of fs.readFile to the await of updateStatistics
RegisterRead(t) ==
  /\ tasks[t].op = "register" /\ tasks[t].pc = "readFile"
  /\ \/ /\ tasks[t].filename \in DOMAIN files
        /\ metadata' = WithStatistics(RegisterRecord(metadata, tasks[t].filename,
                         tasks[t].saveInfo, files[tasks[t].filename], tasks[t].timestamp))
        /\ Finish(t, [tasks[t] EXCEPT !.pc = "afterStats"])
        /\ UNCHANGED budget
     \/ /\ tasks[t].filename \notin DOMAIN files
        /\ Finish(t, Settle(tasks[t], TRUE, FALSE))
        /\ UNCHANGED <<metadata, budget>>
     \/ /\ tasks[t].filename \in DOMAIN files /\ MayFail
        /\ budget' = Spend
        /\ Finish(t, Settle(tasks[t], TRUE, FALSE))
        /\ UNCHANGED metadata
  /\ UNCHANGED <<disk, files, quarantine, now>>

\* after `await this.updateStatistics()`: saveMetadata is called
AfterStats(t) ==
  /\ tasks[t].pc = "afterStats"
  /\ Finish(t, SavePrefix(tasks[t], metadata))
  /\ UNCHANGED <<metadata, disk, files, quarantine, now, budget>>

\* unregisterSaveFile up to the await of saveMetadata
UnregisterCall(t, filename) ==
  /\ IF filename \in DOMAIN metadata.saves
     THEN /\ metadata' = [metadata EXCEPT !.saves = Delete(metadata.saves, {filename})]
          /\ Call(t, SavePrefix([NewTask("unregister", "idle") EXCEPT !.filename = filename],
                                metadata'), FALSE)
     ELSE /\ UNCHANGED metadata
          /\ Call(t, Settle([NewTask("unregister", "idle") EXCEPT !.filename = filename],
                            FALSE, FALSE), FALSE)
  /\ UNCHANGED <<disk, files, quarantine, now>>

\* recordLoadOperation up to the await of saveMetadata
RecordLoadCall(t, filename) ==
  /\ LET ts == now IN
       /\ now' = now + 1
       /\ metadata' = RecordLoadRecord(metadata, filename, ts)
       /\ Call(t, SavePrefix([NewTask("recordLoad", "idle") EXCEPT
                                !.filename = filename, !.timestamp = ts], metadata'), FALSE)
  /\ UNCHANGED <<disk, files, quarantine>>

\* updateConfiguration up to the await of saveMetadata
UpdateConfigurationCall(t, config) ==
  /\ metadata' = ConfigurationRecord(metadata, config)
  /\ Call(t, SavePrefix([NewTask("updateConfiguration", "idle") EXCEPT !.config = config],
                         metadata'), FALSE)
  /\ UNCHANGED <<disk, files, quarantine, now>>

\* cleanupOrphanedMetadata up to the await of fs.readdir
CleanupCall(t) ==
  /\ Call(t, NewTask("cleanup", "readdir"), hist.quiet)
  /\ UNCHANGED <<metadata, disk, files, quarantine, now>>

\* cleanupOrphanedMetadata from the end of fs.readdir to its next await or its return
CleanupReaddir(t) ==
  /\ tasks[t].op = "cleanup" /\ tasks[t].pc = "readdir"
  /\ LET existingFiles == DOMAIN files
         cleanedCount == CleanedCount(metadata.saves, existingFiles)
         pruned == [metadata EXCEPT !.saves = CleanedSaves(metadata.saves, existingFiles)]
     IN IF cleanedCount > 0
        THEN /\ metadata' = WithStatistics(pruned)
             /\ Finish(t, [tasks[t] EXCEPT !.pc = "afterStats", !.cleaned = cleanedCount])
        ELSE /\ metadata' = pruned
             /\ Finish(t, Settle(tasks[t], FALSE, FALSE))
  /\ UNCHANGED <<disk, files, quarantine, now, budget>>

\* ------------------------------------------------------------- validation
\* messages of the errors fs.access and fs.readFile reject with
ENOENT == "ENOENT: no such file or directory"
EACCES == "EACCES: permission denied"

\* the value the catch block of validateSaveFileIntegrity returns
ErrorVerdict(filename, message) ==
  [valid |-> FALSE, filename |-> filename, reason |-> "Validation error: " \o message,
   storedChecksum |-> Null, currentChecksum |-> Null]

\* the value returned when the record has no entry for the filename
UntrackedVerdict(filename) ==
  [valid |-> FALSE, filename |-> filename, reason |-> "No metadata found for file",
   storedChecksum |-> Null, currentChecksum |-> Null]

\* faulty variant: every file that can be read passes
ComparedLeniently(filename, storedChecksum, fileContent) ==
  [valid |-> TRUE, filename |-> filename, reason |-> "File integrity verified",
   storedChecksum |-> storedChecksum, currentChecksum |-> calculateChecksum(fileContent)]

\* the value returned once the file has been read and its checksum compared
Compared(filename, storedChecksum, fileContent) ==
  LET currentChecksum == calculateChecksum(fileContent)
      isValid == currentChecksum = storedChecksum
  IN [valid |-> isValid, filename |-> filename,
      reason |-> IF isValid THEN "File integrity verified"
                 ELSE "Checksum mismatch - file may be corrupted",
      storedChecksum |-> storedChecksum, currentChecksum |-> currentChecksum]

\* reason.includes('ENOENT') || reason.includes('not found'): of the reasons
\* above only the one carrying the ENOENT message contains either text (the
\* messages of Node also carry the path of the file, and no path of Filenames
\* contains one of the two texts)
MentionsMissing(reason) == reason = ErrorVerdict("", ENOENT).reason

\* faulty variant: every invalid file is counted as missing
TallyAllMissing(results, validation) ==
  [results EXCEPT
     !.details = Append(@, validation),
     !.totalFiles = @ + 1,
     !.validFiles = IF validation.valid THEN @ + 1 ELSE @,
     !.invalidFiles = IF validation.valid THEN @ ELSE @ + 1,
     !.missingFiles = IF validation.valid THEN @ ELSE @ + 1]

\* one iteration of the loop of validateAllSaveFiles on the results object
Tally(results, validation) ==
  [results EXCEPT
     !.details = Append(@, validation),
     !.totalFiles = @ + 1,
     !.validFiles = IF validation.valid THEN @ + 1 ELSE @,
     !.invalidFiles = IF validation.valid THEN @ ELSE @ + 1,
     !.missingFiles = IF ~validation.valid /\ MentionsMissing(validation.reason)
                      THEN @ + 1 ELSE @]

\* the filenames the loop may take next; "" when none is left
Following(remaining) == IF remaining = {} THEN {""} ELSE remaining

\* faulty variant: a validation that does not pass rejects
ConcludeThrowing(task, validation, next) ==
  IF validation.valid
  THEN [task EXCEPT !.pc = "done", !.outcome = "returned", !.verdict = validation]
  ELSE [task EXCEPT !.pc = "done", !.outcome = "threw"]

\* validateSaveFileIntegrity returns the value validation; its caller is either
\* the user or the loop of validateAllSaveFiles, which goes on with the
\* filename next or returns its results
Conclude(task, validation, next) ==
  IF task.op = "validate"
  THEN [task EXCEPT !.pc = "done", !.outcome = "returned", !.verdict = validation]
  ELSE LET results == Tally(task.report, validation)
       IN IF next = ""
          THEN [task EXCEPT !.pc = "done", !.outcome = "returned", !.report = results,
                            !.filename = ""]
          ELSE [task EXCEPT !.pc = "vAccess", !.report = results, !.filename = next,
                            !.remaining = @ \ {next}, !.stored = Null]

\* validateSaveFileIntegrity up to the await of fs.access
ValidateCall(t, filename) ==
  /\ Call(t, [NewTask("validate", "vAccess") EXCEPT !.filename = filename], FALSE)
  /\ UNCHANGED <<metadata, disk, files, quarantine, now>>

\* validateAllSaveFiles up to the await of the first fs.access, or to its return
\* when no filename is tracked
ValidateAllCall(t) ==
  /\ \E first \in Following(DOMAIN metadata.saves) :
       Call(t, IF first = ""
               THEN [NewTask("validateAll", "done") EXCEPT !.outcome = "returned"]
               ELSE [NewTask("validateAll", "vAccess") EXCEPT
                       !.filename = first, !.remaining = DOMAIN metadata.saves \ {first}],
            FALSE)
  /\ UNCHANGED <<metadata, disk, files, quarantine, now>>

\* validateSaveFileIntegrity from the end of fs.access to the await of fs.readFile
\* or to its return
ValidateAccess(t) ==
  /\ tasks[t].pc = "vAccess"
  /\ LET task == tasks[t]
         filename == task.filename
     IN IF filename \notin DOMAIN files
        THEN \E next \in Following(task.remaining) :
               Finish(t, Conclude(task, ErrorVerdict(filename, ENOENT), next))
        ELSE IF filename \notin DOMAIN metadata.saves
        THEN \E next \in Following(task.remaining) :
               Finish(t, Conclude(task, UntrackedVerdict(filename), next))
        ELSE Finish(t, [task EXCEPT !.pc = "vRead",
                                    !.stored = metadata.saves[filename].checksum])
  /\ UNCHANGED <<metadata, disk, files, quarantine, now, budget>>

\* validateSaveFileIntegrity from the end of fs.readFile to its return
ValidateRead(t) ==
  /\ tasks[t].pc = "vRead"
  /\ LET task == tasks[t]
         filename == task.filename
     IN \E next \in Following(task.remaining) :
          \/ /\ filename \in DOMAIN files
             /\ Finish(t, Conclude(task, Compared(filename, task.stored, files[filename]),
                                   next))
             /\ UNCHANGED budget
          \/ /\ filename \notin DOMAIN files
             /\ Finish(t, Conclude(task, ErrorVerdict(filename, ENOENT), next))
             /\ UNCHANGED budget
          \/ /\ MayFail
             /\ budget' = Spend
             /\ Finish(t, Conclude([task EXCEPT !.readErr = TRUE],
                                   ErrorVerdict(filename, EACCES), next))
  /\ UNCHANGED <<metadata, disk, files, quarantine, now>>

\* ------------------------------------------------------------- environment
External ==
  /\ MayAct /\ Quiescent
  /\ budget' = Spend
  /\ hist' = [hist EXCEPT !.quiet = FALSE]
  /\ UNCHANGED <<metadata, tasks, now, quarantine>>

\* the save-I/O collaborator writes a save file
ExternalWrite(filename, content) ==
  /\ External
  /\ filename \in DOMAIN files /\ files[filename] # content
  /\ files' = [f \in DOMAIN files \cup {filename} |->
                 IF f = filename THEN content ELSE files[f]]
  /\ UNCHANGED disk

\* a save file is deleted outside the store
ExternalDelete(filename) ==
  /\ External
  /\ filename \in DOMAIN files
  /\ files' = [f \in DOMAIN files \ {filename} |-> files[f]]
  /\ UNCHANGED disk

\* metadata.json is damaged outside the store
ExternalCorrupt ==
  /\ External
  /\ disk[MetaPath].kind = "json"
  /\ disk' = [disk EXCEPT ![MetaPath] = Corrupt]
  /\ UNCHANGED files

\* ------------------------------------------------------------- specifications
LoadStep(t) == LoadAccess(t) \/ LoadRead(t) \/ LoadBackup(t)

Step(t) ==
  \/ SaveWriteOpen(t) \/ SaveWriteFinish(t) \/ SaveRename(t)
  \/ RegisterRead(t) \/ AfterStats(t) \/ CleanupReaddir(t)

\* register, unregister, updateConfiguration and reconcile
Mutation(t) ==
  \/ \E r \in Registrations : RegisterCall(t, r[1], SaveInfos[r[2]])
  \/ \E f \in Filenames : UnregisterCall(t, f)
  \/ \E i \in 1..Len(Configs) : UpdateConfigurationCall(t, Configs[i])
  \/ CleanupCall(t)

\* the two validation operations
Validation(t) ==
  \/ \E f \in Filenames : ValidateCall(t, f)
  \/ ValidateAllCall(t)

ValidationStep(t) == ValidateAccess(t) \/ ValidateRead(t)

Operation(t) ==
  \/ Mutation(t)
  \/ \E f \in Filenames : RecordLoadCall(t, f)

Environment ==
  \/ \E f \in Filenames, c \in Contents : ExternalWrite(f, c)
  \/ \E f \in Filenames : ExternalDelete(f)
  \/ ExternalCorrupt

\* sequential use: a call is made only when every earlier call has finished
Next ==
  \/ LoadStep("L")
  \/ Step("L") \/ Step("A")
  \/ Operation("A")
  \/ Validation("A") \/ ValidationStep("A")
  \/ Environment
  \/ Restart

Spec == Init /\ [][Next]_vars

\* sequential use in which no I/O failure is injected
InitReliable == Constructed([events |-> 0, faults |-> FALSE, overlap |-> FALSE])

SpecReliable == InitReliable /\ [][Next]_vars

\* a store whose load has finished on a fresh directory; no failure is injected
InitConc ==
  /\ metadata = DefaultMetadata
  /\ disk = [p \in {MetaPath, TempPath} |->
               IF p = MetaPath THEN JSONstringify(DefaultMetadata) ELSE NoFile]
  /\ files = InitFiles
  /\ quarantine = 0
  /\ tasks = [s \in Slots |-> IF s = "L" THEN Settle(NewTask("load", "access"), FALSE, FALSE)
                              ELSE IdleTask]
  /\ now = 1
  /\ budget = [events |-> MaxEvents - MaxOverlap, faults |-> FALSE, overlap |-> TRUE]
  /\ hist = [pre |-> DefaultMetadata, preFile |-> JSONstringify(DefaultMetadata),
             preFiles |-> DOMAIN InitFiles, preDir |-> InitFiles, preTracked |-> {}, again |-> FALSE,
             quiet |-> FALSE, peak |-> NoPeak, loading |-> FALSE]

\* calls are made without waiting for the earlier ones
NextConc ==
  \/ \E t \in OpSlots : Step(t)
  \/ \E t \in OpSlots : Mutation(t)

SpecConc == InitConc /\ [][NextConc]_vars

\* the record an earlier instance left in metadata.json: save1 was registered
StartupRecord ==
  WithStatistics(RegisterRecord(DefaultMetadata, "save1", SaveInfos[1], InitFiles["save1"], 1))

\* the constructor has just run on a directory whose metadata.json holds
\* StartupRecord: its load is pending; no failure is injected
InitStartup ==
  /\ metadata = DefaultMetadata
  /\ disk = [p \in {MetaPath, TempPath} |->
               IF p = MetaPath THEN JSONstringify(StartupRecord) ELSE NoFile]
  /\ files = InitFiles
  /\ quarantine = 0
  /\ tasks = StartedLoad
  /\ now = 2
  /\ budget = [events |-> MaxEvents - MaxOverlap, faults |-> FALSE, overlap |-> TRUE]
  /\ hist = [pre |-> DefaultMetadata, preFile |-> JSONstringify(StartupRecord),
             preFiles |-> DOMAIN InitFiles, preDir |-> InitFiles, preTracked |-> {},
             again |-> FALSE, quiet |-> FALSE, peak |-> NoPeak, loading |-> FALSE]

\* methods are called on the instance without waiting for the load that the
\* constructor started
NextStartup ==
  \/ LoadAccess("L") \/ LoadRead("L")
  \/ Step("A")
  \/ Mutation("A")

SpecStartup == InitStartup /\ [][NextStartup]_vars


\* ------------------------------------------------------------- properties
\* the call the sequential caller made last: the operation in slot A, or the
\* constructor's load while no operation has been called on the instance
Current == IF tasks["A"].op # "none" THEN "A" ELSE "L"

Returned(t) == tasks[t].pc = "done" /\ tasks[t].outcome = "returned"

\* C1: metadata.json is never a partially written record: at every moment it
\* holds the complete document it held when the current call started or the
\* complete serialization of the record being persisted, and a call whose
\* persist failed leaves the document of before the call on disk.
PersistIsAtomic ==
  /\ disk[MetaPath].kind # "partial"
  /\ disk[MetaPath].kind = "json" =>
       disk[MetaPath] \in {hist.preFile, JSONstringify(metadata)}
  /\ tasks[Current].saveErr /\ disk[MetaPath].kind # "corrupt" =>
       disk[MetaPath] = hist.preFile

\* a new store is being constructed after the process stopped between the
\* write of the temporary file and the rename: metadata.json.tmp holds the
\* document that was being persisted, metadata.json the earlier one
CrashBeforeRename ==
  /\ tasks["L"].pc = "access" /\ budget.events > 0
  /\ disk[TempPath].kind = "json" /\ disk[MetaPath].kind = "json"
  /\ disk[TempPath] # disk[MetaPath]
  /\ DOMAIN disk[TempPath].body.saves # {}

\* C2: when calls overlap, the outcome is that of a serial execution: once
\* every call has finished none of them has met a persist error and
\* metadata.json holds the in-memory record.
OverlapIsSerial ==
  Quiescent =>
    /\ \A t \in OpSlots : ~tasks[t].saveErr
    /\ disk[MetaPath] = JSONstringify(metadata)

\* the aggregates a reader expects for the entries of the record; the average
\* is taken to the nearest integer
Aggregated(md) ==
  LET n == Cardinality(DOMAIN md.saves)
      total == SumSizes(md.saves, DOMAIN md.saves)
  IN /\ md.statistics.totalDiskUsage = total
     /\ md.statistics.averageSaveSize = IF n = 0 THEN 0 ELSE Round(total, n)

\* C3: after a register or an unregister has finished, totalDiskUsage is the
\* sum of the sizes of the entries and averageSaveSize that sum divided by the
\* number of entries (0 without entries).
StatisticsConsistent ==
  Returned("A") /\ tasks["A"].op \in {"register", "unregister"} =>
    Aggregated(metadata)

\* C4: a call whose persist step failed leaves the in-memory record as it was
\* when the call started.
FailedPersistRollsBack ==
  Returned("L") /\ tasks["A"].pc = "done" /\ tasks["A"].saveErr => metadata = hist.pre

\* C5: register, unregister, updateConfiguration and reconcile do not complete
\* normally when their persist step failed.
PersistFailureSurfaced ==
  /\ Returned("L") /\ tasks["A"].pc = "done" /\ tasks["A"].saveErr
  /\ tasks["A"].op \in {"register", "unregister", "updateConfiguration", "cleanup"}
  => tasks["A"].outcome = "threw"

\* C6: once a mutating call has returned without an error, metadata.json holds
\* the in-memory record (a document damaged outside the store set aside).
ReturnedMeansPersisted ==
  Returned("L") /\ Returned("A") /\ disk[MetaPath].kind # "corrupt" =>
    disk[MetaPath] = JSONstringify(metadata)

\* C7: the load of a fresh store over a directory whose metadata.json holds a
\* persisted record yields that record.
RoundTrip ==
  /\ Returned("L") /\ tasks["A"].op = "none"
  /\ hist.preFile.kind = "json"
  => metadata = JSONparse(hist.preFile)

\* a fresh store has loaded a record with an entry that carries lastAccessed
\* and with counters and configuration off their defaults
LoadedAfterRestart ==
  /\ Returned("L") /\ tasks["A"].op = "none" /\ budget.events > 0
  /\ hist.preFile.kind = "json"
  /\ \E f \in DOMAIN metadata.saves : "lastAccessed" \in DOMAIN metadata.saves[f]
  /\ metadata.totalSaves > 0 /\ metadata.statistics.totalLoadOperations > 0

\* reconcile has just returned: nothing has happened since
JustReconciled == tasks["A"].op = "cleanup" /\ tasks["A"].pc = "done" /\ hist.quiet

\* C8: reconcile removes exactly the tracked filenames absent from the
\* directory and returns their number.
ReconcileRemovesOrphans ==
  Returned("L") /\ JustReconciled =>
    /\ DOMAIN metadata.saves \subseteq DOMAIN files
    /\ tasks["A"].ret = Cardinality(hist.preTracked \ hist.preFiles)
    /\ \A f \in hist.preTracked \ hist.preFiles : f \notin DOMAIN metadata.saves

\* C9: reconcile only prunes: the tracked filenames after it are among those
\* before it and every surviving entry is unchanged.
ReconcileOnlyPrunes ==
  tasks["A"].op = "cleanup" /\ tasks["A"].pc # "readdir" =>
    /\ DOMAIN metadata.saves \subseteq hist.preTracked
    /\ \A f \in DOMAIN metadata.saves : metadata.saves[f] = hist.pre.saves[f]

\* reconcile has removed an entry and kept another one
PrunedOneKeptOne ==
  /\ JustReconciled /\ tasks["A"].ret = 1
  /\ DOMAIN metadata.saves # {}
  /\ DOMAIN metadata.saves # hist.preTracked

TotalSavesCountsRegistrations ==
  Returned("L") /\ tasks["A"].pc = "done" =>
    metadata.totalSaves =
      hist.pre.totalSaves +
        (IF tasks["A"].op = "register" /\ tasks["A"].outcome = "returned" THEN 1 ELSE 0)

\* the registerSaveFile in slot A has run lines 125-141 on the record
Recorded(f) ==
  /\ tasks["A"].op = "register" /\ tasks["A"].filename = f
  /\ tasks["A"].pc # "readFile" /\ ~tasks["A"].readErr

\* C12 as stated: the saveCount of a filename is never smaller than a value it
\* held earlier in the life of the instance, also when the filename was
\* unregistered or pruned in between.
SaveCountNeverDrops ==
  \A f \in DOMAIN metadata.saves : metadata.saves[f].saveCount >= hist.peak[f]

\* C12 amended: while a filename stays tracked its saveCount never decreases;
\* a registration of an untracked filename yields 1 and a registration of a
\* tracked filename adds one; no other operation changes the count of an entry
\* it keeps.
SaveCountGrowsWhileTracked ==
  tasks["A"].op # "none" =>
    \A f \in DOMAIN metadata.saves :
      metadata.saves[f].saveCount =
        (IF f \in DOMAIN hist.pre.saves THEN hist.pre.saves[f].saveCount ELSE 0) +
        (IF Recorded(f) THEN 1 ELSE 0)

\* a filename that had reached the count 2 and was removed is registered again
\* and starts at 1
RegisteredAgainAfterRemoval ==
  /\ Returned("A") /\ tasks["A"].op = "register"
  /\ hist.peak[tasks["A"].filename] = 2
  /\ tasks["A"].filename \notin hist.preTracked
  /\ metadata.saves[tasks["A"].filename].saveCount = 1

\* the validateSaveFileIntegrity in slot A has returned a value and the save
\* directory is as it was during the call
Validated == tasks["A"].op = "validate" /\ Returned("A") /\ files = hist.preDir

\* C13: validateSaveFileIntegrity of a filename that has no entry returns the
\* verdict "No metadata found for file", whether or not the file exists in the
\* save directory.
UntrackedVerdictForUntracked ==
  Validated /\ tasks["A"].filename \notin DOMAIN metadata.saves =>
    tasks["A"].verdict = UntrackedVerdict(tasks["A"].filename)

\* C14: validateSaveFileIntegrity of a tracked filename whose file can be read
\* or is absent: the verdict is the missing one when the file is absent, the
\* valid one when the checksum of the file equals the stored checksum, and
\* otherwise the mismatch one, which carries both checksums.
TrackedVerdicts ==
  Validated /\ tasks["A"].filename \in DOMAIN metadata.saves /\ ~tasks["A"].readErr =>
    LET f == tasks["A"].filename
        v == tasks["A"].verdict
        stored == metadata.saves[f].checksum
    IN /\ v.filename = f
       /\ IF f \notin DOMAIN files
          THEN ~v.valid /\ MentionsMissing(v.reason)
          ELSE IF Digest(files[f]) = stored
          THEN v.valid /\ v.reason = "File integrity verified"
          ELSE /\ ~v.valid /\ v.reason = "Checksum mismatch - file may be corrupted"
               /\ v.storedChecksum = stored /\ v.currentChecksum = Digest(files[f])
               /\ v.storedChecksum # v.currentChecksum

\* a registered file was overwritten and then validated
OverwrittenFileValidated ==
  /\ Validated /\ tasks["A"].filename \in DOMAIN metadata.saves
  /\ tasks["A"].filename \in DOMAIN files
  /\ ~tasks["A"].verdict.valid /\ ~tasks["A"].readErr

\* the validateAllSaveFiles in slot A has returned its results and the save
\* directory is as it was during the call
ValidatedAll == tasks["A"].op = "validateAll" /\ Returned("A") /\ files = hist.preDir

\* C15: validateAllSaveFiles checks every tracked filename: its details hold one
\* verdict per entry, totalFiles is the number of entries, validFiles +
\* invalidFiles = totalFiles, missingFiles is the number of tracked filenames
\* whose file is absent, and missingFiles <= invalidFiles.
ValidateAllCoversEveryEntry ==
  ValidatedAll =>
    LET results == tasks["A"].report
        tracked == DOMAIN metadata.saves
    IN /\ Len(results.details) = Cardinality(tracked)
       /\ \A f \in tracked :
            Cardinality({i \in 1..Len(results.details) : results.details[i].filename = f}) = 1
       /\ results.totalFiles = Cardinality(tracked)
       /\ results.validFiles + results.invalidFiles = results.totalFiles
       /\ results.validFiles =
            Cardinality({i \in 1..Len(results.details) : results.details[i].valid})
       /\ results.missingFiles = Cardinality({f \in tracked : f \notin DOMAIN files})
       /\ results.missingFiles <= results.invalidFiles

\* of two tracked files the first one checked is invalid without being
\* missing, and the second one has been checked and is valid
WentOnAfterInvalid ==
  /\ ValidatedAll
  /\ tasks["A"].report.totalFiles = 2 /\ tasks["A"].report.missingFiles = 0
  /\ ~tasks["A"].report.details[1].valid /\ tasks["A"].report.details[2].valid

\* C16: validation reports its outcome as a value and changes nothing: a
\* validateSaveFileIntegrity or validateAllSaveFiles never throws, and the
\* in-memory record and metadata.json stay what they were at the call.
ValidationOnlyReports ==
  tasks["A"].op \in {"validate", "validateAll"} =>
    /\ tasks["A"].outcome # "threw"
    /\ tasks["A"].pc = "done" => tasks["A"].outcome = "returned"
    /\ metadata = hist.pre
    /\ disk[MetaPath].kind # "corrupt" => disk[MetaPath] = hist.preFile

\* a tracked file could not be read, and the validation returned that as a value
UnreadableFileReported ==
  /\ Validated /\ tasks["A"].readErr
  /\ tasks["A"].filename \in DOMAIN metadata.saves
  /\ tasks["A"].verdict = ErrorVerdict(tasks["A"].filename, EACCES)

\* a load that found metadata.json unparseable has finished and no operation
\* has been called since
LoadedOverCorrupt ==
  tasks["L"].pc = "done" /\ hist.preFile.kind = "corrupt" /\ tasks["A"].op = "none"

\* C17: a load over an unparseable metadata.json succeeds: the record is then
\* the default one, metadata.json holds its serialization, and the quarantine
\* copy exists when it could be written; a failed quarantine copy does not fail
\* the load (only a failed read or a failed persist does).
CorruptLoadRecovers ==
  LoadedOverCorrupt =>
    /\ ~tasks["L"].readErr /\ ~tasks["L"].saveErr => Returned("L")
    /\ Returned("L") =>
         /\ metadata = DefaultMetadata
         /\ disk[MetaPath].kind # "corrupt" => disk[MetaPath] = JSONstringify(DefaultMetadata)
         /\ tasks["L"].backedUp => quarantine >= 1

\* the unparseable file was quarantined and the record reset
QuarantinedAndReset ==
  /\ LoadedOverCorrupt /\ Returned("L") /\ tasks["L"].backedUp
  /\ quarantine = 1 /\ disk[MetaPath] = JSONstringify(DefaultMetadata)

\* C18: when reading metadata.json fails with an I/O error other than its
\* absence, construction fails: no operation is ever accepted on an instance
\* whose load ended with that error.
FailedLoadYieldsNoStore ==
  tasks["L"].pc = "done" /\ tasks["L"].readErr => tasks["A"].op = "none"

\* C19: a registerSaveFile whose file is missing or unreadable throws and
\* leaves the in-memory record (entries, totalSaves, statistics) and
\* metadata.json as they were at the call.
UnreadableFileNotRegistered ==
  tasks["A"].op = "register" /\ tasks["A"].pc = "done" /\ tasks["A"].readErr =>
    /\ tasks["A"].outcome = "threw"
    /\ metadata = hist.pre
    /\ disk[MetaPath].kind # "corrupt" => disk[MetaPath] = hist.preFile

\* a tracked filename whose file was deleted is registered again, and fails
RegisteredMissingFile ==
  /\ tasks["A"].op = "register" /\ tasks["A"].pc = "done" /\ tasks["A"].readErr
  /\ tasks["A"].filename \in DOMAIN metadata.saves
  /\ tasks["A"].filename \notin DOMAIN files
  /\ metadata.totalSaves = 1

ConfigurationKeys == {"autoSaveEnabled", "autoSaveInterval", "backupCount", "migrationCompleted"}

\* C20: updateConfiguration changes the properties present in its argument
\* among the four configuration properties and nothing else: every absent one,
\* the entries, totalSaves, lastSave and the statistics keep their value; when
\* the call returns, metadata.json holds the resulting record.
ConfigurationFrame ==
  tasks["A"].op = "updateConfiguration" =>
    /\ \A k \in ConfigurationKeys :
         metadata[k] = IF k \in tasks["A"].config.keys
                       THEN tasks["A"].config[k] ELSE hist.pre[k]
    /\ \A k \in DOMAIN metadata \ ConfigurationKeys : metadata[k] = hist.pre[k]
    /\ Returned("A") /\ disk[MetaPath].kind # "corrupt" =>
         disk[MetaPath] = JSONstringify(metadata)

\* a partial configuration was applied to a record that tracks a file
PartialConfigurationApplied ==
  /\ tasks["A"].op = "updateConfiguration" /\ Returned("A")
  /\ tasks["A"].config.keys = {"backupCount", "migrationCompleted"}
  /\ metadata.backupCount = 5 /\ metadata.autoSaveInterval = 30000
  /\ DOMAIN metadata.saves # {}
  /\ disk[MetaPath] = JSONstringify(metadata)

\* the record of an unregisterSaveFile(filename) in slot A, compared with the
\* record at the call
UnregisterRecordFrame ==
  tasks["A"].op = "unregister" =>
    LET filename == tasks["A"].filename
        pre == hist.pre
    IN /\ DOMAIN metadata.saves = DOMAIN pre.saves \ {filename}
       /\ \A f \in DOMAIN metadata.saves : metadata.saves[f] = pre.saves[f]
       /\ metadata.totalSaves = pre.totalSaves
       /\ \A k \in ConfigurationKeys : metadata[k] = pre[k]
       /\ filename \notin DOMAIN pre.saves =>
            /\ metadata = pre
            /\ tasks["A"].pc = "done"
            /\ disk[MetaPath].kind # "corrupt" => disk[MetaPath] = hist.preFile

\* C21: unregisterSaveFile removes exactly the named key when it is tracked and
\* nothing when it is not: the other entries, totalSaves and the configuration
\* properties keep their value, no step of the call changes a file of the save
\* directory, and with an unknown filename the in-memory record and
\* metadata.json stay what they were.
UnregisterFrame ==
  /\ []UnregisterRecordFrame
  /\ [][tasks'["A"].op = "unregister" /\ tasks'["A"] # tasks["A"] => files' = files]_vars

\* a tracked filename was unregistered: another entry is kept and the file of
\* the removed one is still in the save directory
UnregisteredOneKeptOne ==
  /\ Returned("A") /\ tasks["A"].op = "unregister"
  /\ tasks["A"].filename \in hist.preTracked
  /\ tasks["A"].filename \in DOMAIN files
  /\ DOMAIN metadata.saves # {}

\* C22: recordLoadOperation never throws and never creates an entry: for a
\* tracked filename it sets lastAccessed of that entry and nothing else in the
\* entries, for an unknown filename the entries are unchanged; in both cases
\* totalLoadOperations is one more than at the call and lastSuccessfulLoad is
\* the time of the call; a failed persist still ends in a normal return.
RecordLoadFrame ==
  tasks["A"].op = "recordLoad" =>
    LET filename == tasks["A"].filename
        timestamp == tasks["A"].timestamp
        pre == hist.pre
    IN /\ tasks["A"].outcome # "threw"
       /\ tasks["A"].pc = "done" => tasks["A"].outcome = "returned"
       /\ DOMAIN metadata.saves = DOMAIN pre.saves
       /\ \A f \in DOMAIN metadata.saves \ {filename} : metadata.saves[f] = pre.saves[f]
       /\ filename \in DOMAIN pre.saves =>
            /\ metadata.saves[filename].lastAccessed = timestamp
            /\ DOMAIN metadata.saves[filename] = DOMAIN pre.saves[filename] \cup {"lastAccessed"}
            /\ \A k \in DOMAIN pre.saves[filename] \ {"lastAccessed"} :
                 metadata.saves[filename][k] = pre.saves[filename][k]
       /\ metadata.statistics.totalLoadOperations = pre.statistics.totalLoadOperations + 1
       /\ metadata.statistics.lastSuccessfulLoad = timestamp
       /\ \A k \in DOMAIN metadata.statistics \ {"totalLoadOperations", "lastSuccessfulLoad"} :
            metadata.statistics[k] = pre.statistics[k]
       /\ \A k \in DOMAIN metadata \ {"saves", "statistics"} : metadata[k] = pre[k]

\* a load of a tracked file was recorded, the persist failed and the call
\* returned normally
RecordLoadSwallowedFailure ==
  /\ tasks["A"].op = "recordLoad" /\ Returned("A") /\ tasks["A"].saveErr
  /\ tasks["A"].filename \in DOMAIN metadata.saves
  /\ metadata.saves[tasks["A"].filename].lastAccessed = tasks["A"].timestamp

RECURSIVE SumSaveCounts(_, _)
SumSaveCounts(saves, names) ==
  IF names = {} THEN 0
  ELSE LET f == CHOOSE x \in names : TRUE
       IN saves[f].saveCount + SumSaveCounts(saves, names \ {f})

\* totalSaves equals totalSaveOperations and bounds the sum of the saveCount of
\* the entries of the record md
Counted(md) ==
  /\ md.totalSaves = md.statistics.totalSaveOperations
  /\ SumSaveCounts(md.saves, DOMAIN md.saves) <= md.totalSaves

\* C24: in every state of a store that started from the default record,
\* failed operations included, totalSaves equals statistics.totalSaveOperations
\* and the sum of the saveCount of the tracked entries is at most totalSaves;
\* the same holds of the record that metadata.json holds.
CountersAgree ==
  /\ Counted(metadata)
  /\ ParseOK(disk[MetaPath]) => Counted(JSONparse(disk[MetaPath]))

\* a registration failed at its persist after its counters were incremented,
\* and an entry had been removed before: the sum is smaller than totalSaves
CountedAfterFailureAndRemoval ==
  /\ tasks["A"].op = "register" /\ tasks["A"].pc = "done" /\ tasks["A"].saveErr
  /\ metadata.totalSaves = 2
  /\ SumSaveCounts(metadata.saves, DOMAIN metadata.saves) = 1

\* C23: the load started by the constructor does not discard a mutation made
\* on the instance while it was in progress: once the load and a
\* registerSaveFile, unregisterSaveFile or updateConfiguration called during it
\* have all finished, the in-memory record holds the entries that were in
\* metadata.json and the effect of the call, and metadata.json holds the
\* in-memory record.
LoadKeepsMutation ==
  Quiescent /\ hist.loading
    /\ tasks["A"].op \in {"register", "unregister", "updateConfiguration"} =>
      /\ disk[MetaPath] = JSONstringify(metadata)
      /\ \A f \in DOMAIN StartupRecord.saves :
           \/ f \in DOMAIN metadata.saves
           \/ tasks["A"].op = "unregister" /\ tasks["A"].filename = f
      /\ tasks["A"].op = "register" => tasks["A"].filename \in DOMAIN metadata.saves
      /\ tasks["A"].op = "unregister" => tasks["A"].filename \notin DOMAIN metadata.saves
      /\ tasks["A"].op = "updateConfiguration" =>
           \A k \in tasks["A"].config.keys : metadata[k] = tasks["A"].config[k]

====
